---- MODULE Spec2Model ----
(***************************************************************************)
(* Meta-Layer Gateway (src/main.py): a FastAPI application that proxies    *)
(* agent requests to the Tool Warehouse.  Each inbound request runs one    *)
(* handler coroutine; the handler suspends on its outbound httpx call and  *)
(* resumes with the outcome of that call (a response or a raised           *)
(* exception).  Handlers of different requests interleave at the await.    *)
(***************************************************************************)
EXTENDS Integers, Sequences, FiniteSets, TLC

\* Number of inbound requests that may be in flight together.
MaxReqs == 2

------------------------------------------------------------------------------
\* Configuration (main.py:22): os.getenv("TOOL_WAREHOUSE_URL", default).

DefaultUrl == "http://localhost:8001"

EnvUrls == {DefaultUrl, "http://warehouse:8001"}

ToolNames == {"foo", "bar"}

------------------------------------------------------------------------------
\* Python values.  A Python str is a sequence of parts (the pieces an
\* f-string concatenates); JSON values carry a type tag.

JNull == [type |-> "null"]

JStr(parts) == [type |-> "string", s |-> parts]

JNum(n) == [type |-> "number", n |-> n]

JBool(b) == [type |-> "bool", b |-> b]

JArr(items) == [type |-> "array", items |-> items]

JObj(fields) == [type |-> "object", obj |-> fields]

\* substring test on the parts of a str
Contains(str, part) == \E k \in 1..Len(str) : str[k] = part

\* str(v) as an f-string placeholder formats it
PyStr(v) == IF v.type = "string" THEN v.s ELSE <<"repr">>

------------------------------------------------------------------------------
\* Upstream bodies (response.text) the Tool Warehouse may send.

TextRegistry == "{\"tools\":[\"a\",\"b\"]}"

TextExecOk == "{\"success\":true,\"tool_name\":\"foo\",\"result\":42}"

TextExecNoResult == "{\"success\":true,\"tool_name\":\"foo\"}"

TextExecFail == "{\"success\":false,\"tool_name\":\"foo\",\"error\":\"boom\"}"

TextDetail == "{\"detail\":\"Tool not found\"}"

TextPlain == "Bad Gateway"

TextArray == "[\"a\",\"b\"]"

\* Exceptions the outbound httpx call may raise.
ExcReadTimeout == [cls |-> "ReadTimeout", msg |-> <<"">>]

ExcConnectError == [cls |-> "ConnectError", msg |-> <<"All connection attempts failed">>]

ExcInvalidURL == [cls |-> "InvalidURL", msg |-> <<"Invalid non-printable ASCII character in URL">>]

CallExceptions == {ExcReadTimeout, ExcConnectError, ExcInvalidURL}

Responses(statuses, texts) ==
    [kind : {"response"}, status_code : statuses, text : texts]

Raised == [kind : {"exception"}, exc : CallExceptions]

\* The outcomes the upstream call of each endpoint is resumed with: every
\* class of status and body the handler distinguishes, and every exception.
Outcomes(endpoint) ==
    CASE endpoint = "/health" ->
            Responses({200, 404, 503}, {TextPlain}) \cup Raised
      [] endpoint \in {"/tools", "/registry"} ->
            Responses({200}, {TextRegistry, TextArray, TextPlain})
            \cup Responses({404, 503}, {TextDetail, TextPlain})
            \cup Raised
      [] endpoint = "/execute/{tool_name}" ->
            Responses({200}, {TextExecOk, TextExecNoResult, TextExecFail,
                              TextRegistry, TextArray, TextPlain})
            \cup Responses({404}, {TextDetail, TextRegistry, TextArray, TextPlain})
            \cup Raised
      [] endpoint = "/tools/{tool_name}/code" ->
            Responses({200}, {TextPlain, TextRegistry})
            \cup Responses({404, 503}, {TextPlain})
            \cup Raised
      [] OTHER -> {}

------------------------------------------------------------------------------
\* Exceptions.  Mro(cls) is the set of classes an instance of cls is an
\* instance of (httpx, json, pydantic, starlette class hierarchies).

Mro(cls) ==
    CASE cls = "ReadTimeout" ->
            {"ReadTimeout", "TimeoutException", "TransportError",
             "RequestError", "HTTPError", "Exception", "BaseException"}
      [] cls = "ConnectError" ->
            {"ConnectError", "NetworkError", "TransportError",
             "RequestError", "HTTPError", "Exception", "BaseException"}
      [] cls = "InvalidURL" -> {"InvalidURL", "Exception", "BaseException"}
      [] cls = "JSONDecodeError" ->
            {"JSONDecodeError", "ValueError", "Exception", "BaseException"}
      [] cls = "ValidationError" ->
            {"ValidationError", "ValueError", "Exception", "BaseException"}
      [] cls = "TypeError" -> {"TypeError", "Exception", "BaseException"}
      [] cls = "AttributeError" -> {"AttributeError", "Exception", "BaseException"}
      [] cls = "HTTPException" -> {"HTTPException", "Exception", "BaseException"}
      [] OTHER -> {cls, "BaseException"}

IsInstance(e, cls) == cls \in Mro(e.cls)

\* Index of the first except clause that catches e, 0 when none does.
FirstMatch(clauses, e) ==
    LET hits == {k \in 1..Len(clauses) : IsInstance(e, clauses[k])}
    IN  IF hits = {} THEN 0
        ELSE CHOOSE k \in hits : \A m \in hits : k <= m

\* HTTPException(status_code=..., detail=...); str(e) is "<status>: <detail>".
HTTPException(status_code, detail) ==
    [cls |-> "HTTPException", status_code |-> status_code, detail |-> detail,
     msg |-> <<ToString(status_code), ": ">> \o detail]

JSONDecodeError == [cls |-> "JSONDecodeError", msg |-> <<"Expecting value">>]

AttributeError == [cls |-> "AttributeError", msg |-> <<"object has no attribute 'get'">>]

TypeError == [cls |-> "TypeError", msg |-> <<"argument after ** must be a mapping">>]

ValidationError == [cls |-> "ValidationError", msg |-> <<"validation error for ToolExecutionResponse">>]

Return(v) == [kind |-> "return", value |-> v]

Raise(e) == [kind |-> "raise", exc |-> e]

------------------------------------------------------------------------------
\* response.json(): parse the body text, raising JSONDecodeError on text
\* that is not JSON.

JsonLoads(text) ==
    CASE text = TextRegistry ->
            Return(JObj([tools |-> JArr(<<JStr(<<"a">>), JStr(<<"b">>)>>)]))
      [] text = TextExecOk ->
            Return(JObj([success |-> JBool(TRUE), tool_name |-> JStr(<<"foo">>),
                         result |-> JNum(42)]))
      [] text = TextExecNoResult ->
            Return(JObj([success |-> JBool(TRUE), tool_name |-> JStr(<<"foo">>)]))
      [] text = TextExecFail ->
            Return(JObj([success |-> JBool(FALSE), tool_name |-> JStr(<<"foo">>),
                         error |-> JStr(<<"boom">>)]))
      [] text = TextDetail ->
            Return(JObj([detail |-> JStr(<<"Tool not found">>)]))
      [] text = TextArray ->
            Return(JArr(<<JStr(<<"a">>), JStr(<<"b">>)>>))
      [] OTHER -> Raise(JSONDecodeError)

\* Variant: result and error exchanged.
ToolExecutionResponse_swapped(success, tool_name, result, error) ==
    [type |-> "ToolExecutionResponse", success |-> success,
     tool_name |-> tool_name, result |-> error, error |-> result]

\* ToolExecutionResponse(success=..., tool_name=..., result=..., error=...)
ToolExecutionResponse(success, tool_name, result, error) ==
    [type |-> "ToolExecutionResponse", success |-> success,
     tool_name |-> tool_name, result |-> result, error |-> error]

\* ToolExecutionResponse(**result): result must be a mapping, success and
\* tool_name are required, result and error default to None, other keys
\* are ignored.
ToolExecutionResponseFromDict(v) ==
    IF v.type # "object" THEN Raise(TypeError)
    ELSE LET d == v.obj
             has(k) == k \in DOMAIN d
         IN  IF ~(has("success") /\ has("tool_name")) THEN Raise(ValidationError)
             ELSE IF d.success.type # "bool" \/ d.tool_name.type # "string"
                  THEN Raise(ValidationError)
             ELSE IF has("error") /\ d.error.type \notin {"string", "null"}
                  THEN Raise(ValidationError)
             ELSE Return(ToolExecutionResponse(
                      d.success.b, d.tool_name.s,
                      IF has("result") THEN d.result ELSE JNull,
                      IF has("error") THEN d.error ELSE JNull))

------------------------------------------------------------------------------
\* State: the module-level configuration value and the in-flight requests.

VARIABLES TOOL_WAREHOUSE_URL, reqs

vars == <<TOOL_WAREHOUSE_URL, reqs>>

ReqIds == 1..MaxReqs

------------------------------------------------------------------------------
\* Handler bodies, as functions of the outcome of the awaited upstream call.

\* root(): static service metadata.
root_body ==
    Return(JObj([service |-> JStr(<<"meta-layer-gateway">>),
                 version |-> JStr(<<"1.0.0">>),
                 status |-> JStr(<<"active">>),
                 endpoints |-> JObj([health |-> JStr(<<"/health">>),
                                     discover_tools |-> JStr(<<"/tools">>),
                                     execute_tool |-> JStr(<<"/execute/{tool_name}">>)]),
                 connected_to |-> JStr(<<TOOL_WAREHOUSE_URL>>)]))

\* Variant: any upstream answer counts as healthy.
warehouse_healthy_any_response(outcome) == outcome.kind = "response"

\* health_check(): try ... response.status_code == 200; bare except -> False.
warehouse_healthy(outcome) ==
    IF outcome.kind = "response" THEN outcome.status_code = 200 ELSE FALSE

health_check_body(outcome) ==
    LET healthy == warehouse_healthy(outcome)
    IN  Return(JObj([status |-> JStr(<<IF healthy THEN "healthy" ELSE "degraded">>),
                     service |-> JStr(<<"meta-layer-gateway">>),
                     version |-> JStr(<<"1.0.0">>),
                     tool_warehouse |->
                         JObj([url |-> JStr(<<TOOL_WAREHOUSE_URL>>),
                               status |-> JStr(<<IF healthy THEN "connected"
                                                 ELSE "unreachable">>)])]))

\* Variant: the body text is relayed instead of the parsed JSON.
discover_tools_try_text(outcome) ==
    IF outcome.kind = "exception" THEN Raise(outcome.exc)
    ELSE IF outcome.status_code = 200 THEN Return(JStr(<<outcome.text>>))
    ELSE Raise(HTTPException(outcome.status_code,
                             <<"Tool Warehouse returned error: ", outcome.text>>))

\* discover_tools(): the try block.
discover_tools_try(outcome) ==
    IF outcome.kind = "exception" THEN Raise(outcome.exc)
    ELSE IF outcome.status_code = 200 THEN JsonLoads(outcome.text)
    ELSE Raise(HTTPException(outcome.status_code,
                             <<"Tool Warehouse returned error: ", outcome.text>>))

\* Variant: RequestError is caught before its subclass TimeoutException.
discover_tools_clauses_request_error_first ==
    <<"RequestError", "TimeoutException", "Exception">>

\* discover_tools(): the except clauses, in source order.
discover_tools_clauses == <<"TimeoutException", "RequestError", "Exception">>

discover_tools_body(outcome) ==
    LET r == discover_tools_try(outcome)
        k == IF r.kind = "raise" THEN FirstMatch(discover_tools_clauses, r.exc) ELSE 0
        c == IF k = 0 THEN "" ELSE discover_tools_clauses[k]
    IN  CASE c = "TimeoutException" ->
                Raise(HTTPException(504,
                    <<"Tool Warehouse timeout - service may be unavailable">>))
          [] c = "RequestError" ->
                Raise(HTTPException(503,
                    <<"Cannot reach Tool Warehouse at ", TOOL_WAREHOUSE_URL, ": ">>
                    \o r.exc.msg))
          [] c = "Exception" ->
                Raise(HTTPException(500, <<"Meta-Layer error: ">> \o r.exc.msg))
          [] OTHER -> r

\* get_registry(): return await discover_tools()
get_registry_body(outcome) == discover_tools_body(outcome)

\* execute_tool(): the try block.
execute_tool_try(tool_name, outcome) ==
    IF outcome.kind = "exception" THEN Raise(outcome.exc)
    ELSE LET parsed == JsonLoads(outcome.text)
         IN  IF parsed.kind = "raise" THEN parsed
             ELSE IF outcome.status_code = 200
                  THEN ToolExecutionResponseFromDict(parsed.value)
             ELSE IF parsed.value.type # "object" THEN Raise(AttributeError)
             ELSE LET error_detail ==
                          IF "detail" \in DOMAIN parsed.value.obj
                          THEN parsed.value.obj.detail
                          ELSE JStr(<<outcome.text>>)
                  IN  Return(ToolExecutionResponse(
                          FALSE, <<tool_name>>, JNull,
                          JStr(<<"Tool Warehouse error: ">> \o PyStr(error_detail))))

\* Variant: no catch-all clause.
execute_tool_clauses_no_catch_all == <<"TimeoutException", "RequestError">>

\* execute_tool(): the except clauses, in source order.
execute_tool_clauses == <<"TimeoutException", "RequestError", "Exception">>

execute_tool_body(tool_name, outcome) ==
    LET r == execute_tool_try(tool_name, outcome)
        k == IF r.kind = "raise" THEN FirstMatch(execute_tool_clauses, r.exc) ELSE 0
        c == IF k = 0 THEN "" ELSE execute_tool_clauses[k]
    IN  CASE c = "TimeoutException" ->
                Return(ToolExecutionResponse(FALSE, <<tool_name>>, JNull,
                    JStr(<<"Tool execution timeout - tool may be taking too long">>)))
          [] c = "RequestError" ->
                Return(ToolExecutionResponse(FALSE, <<tool_name>>, JNull,
                    JStr(<<"Cannot reach Tool Warehouse: ">> \o r.exc.msg)))
          [] c = "Exception" ->
                Return(ToolExecutionResponse(FALSE, <<tool_name>>, JNull,
                    JStr(<<"Meta-Layer error: ">> \o r.exc.msg)))
          [] OTHER -> r

\* get_tool_code(): the try block.
get_tool_code_try(tool_name, outcome) ==
    IF outcome.kind = "exception" THEN Raise(outcome.exc)
    ELSE IF outcome.status_code = 200
         THEN Return(JObj([tool_name |-> JStr(<<tool_name>>),
                           code |-> JStr(<<outcome.text>>)]))
    ELSE Raise(HTTPException(outcome.status_code, <<outcome.text>>))

\* get_tool_code(): the single except clause.
get_tool_code_clauses == <<"Exception">>

get_tool_code_body(tool_name, outcome) ==
    LET r == get_tool_code_try(tool_name, outcome)
        k == IF r.kind = "raise" THEN FirstMatch(get_tool_code_clauses, r.exc) ELSE 0
    IN  IF k = 1
        THEN Raise(HTTPException(500, <<"Error retrieving tool code: ">> \o r.exc.msg))
        ELSE r

\* FastAPI turns what the handler returned or raised into the HTTP response.
HttpResponse(r) ==
    IF r.kind = "return" THEN [status |-> 200, body |-> r.value]
    ELSE IF r.exc.cls = "HTTPException"
         THEN [status |-> r.exc.status_code,
               body |-> JObj([detail |-> JStr(r.exc.detail)])]
    ELSE [status |-> 500, body |-> JStr(<<"Internal Server Error">>)]

------------------------------------------------------------------------------
\* Requests.  pc is the handler's position: "idle" (not yet arrived),
\* "awaiting" (suspended on the upstream call), "done" (response sent).

NoCall == [method |-> "", url |-> <<>>, timeout |-> 0]

NoOutcome == [kind |-> "none"]

NoResponse == [status |-> 0, body |-> JNull]

IdleReq ==
    [pc |-> "idle", endpoint |-> "", tool_name |-> "", calls |-> 0,
     call |-> NoCall, outcome |-> NoOutcome, response |-> NoResponse]

Init ==
    /\ TOOL_WAREHOUSE_URL \in EnvUrls
    /\ reqs = [i \in ReqIds |-> IdleReq]

\* async with httpx.AsyncClient() as client: await client.<method>(url, timeout=...)
\* The handler issues its upstream call and suspends.
IssueCall(r, endpoint, tool_name, method, path, timeout) ==
    [r EXCEPT !.pc = "awaiting", !.endpoint = endpoint, !.tool_name = tool_name,
              !.calls = @ + 1,
              !.call = [method |-> method,
                        url |-> <<TOOL_WAREHOUSE_URL>> \o path,
                        timeout |-> timeout]]

\* Variant: one client shared by all requests, whose call fails while
\* another request's call is in flight.
Await_shared_client(i, outcome) ==
    IF \E j \in ReqIds \ {i} : reqs[j].pc = "awaiting"
    THEN [kind |-> "exception", exc |-> ExcReadTimeout]
    ELSE outcome

\* What the await of request i yields: the outcome of the call made on the
\* client that request i created for itself.
Await(i, outcome) == outcome

\* Variant: a timed-out call is issued once more before responding.
Complete_retry_on_timeout(r, outcome, result) ==
    IF outcome.kind = "exception" /\ outcome.exc.cls = "ReadTimeout" /\ r.calls < 2
    THEN [r EXCEPT !.calls = @ + 1]
    ELSE [r EXCEPT !.pc = "done", !.outcome = outcome,
                   !.response = HttpResponse(result)]

\* The handler returned or raised; the response goes out.
Complete(r, outcome, result) ==
    [r EXCEPT !.pc = "done", !.outcome = outcome, !.response = HttpResponse(result)]

\* GET /
root(i) ==
    /\ reqs[i].pc = "idle"
    /\ reqs' = [reqs EXCEPT ![i] =
                   [@ EXCEPT !.pc = "done", !.endpoint = "/",
                             !.response = HttpResponse(root_body)]]
    /\ UNCHANGED TOOL_WAREHOUSE_URL

\* GET /health
health_check_call(i) ==
    /\ reqs[i].pc = "idle"
    /\ reqs' = [reqs EXCEPT ![i] =
                   IssueCall(@, "/health", "", "GET", <<"/health">>, 5)]
    /\ UNCHANGED TOOL_WAREHOUSE_URL

health_check_resume(i, outcome) ==
    /\ reqs[i].pc = "awaiting"
    /\ reqs[i].endpoint = "/health"
    /\ reqs' = [reqs EXCEPT ![i] =
                   Complete(@, outcome, health_check_body(Await(i, outcome)))]
    /\ UNCHANGED TOOL_WAREHOUSE_URL

\* GET /tools
discover_tools_call(i) ==
    /\ reqs[i].pc = "idle"
    /\ reqs' = [reqs EXCEPT ![i] =
                   IssueCall(@, "/tools", "", "GET", <<"/tools">>, 10)]
    /\ UNCHANGED TOOL_WAREHOUSE_URL

discover_tools_resume(i, outcome) ==
    /\ reqs[i].pc = "awaiting"
    /\ reqs[i].endpoint = "/tools"
    /\ reqs' = [reqs EXCEPT ![i] =
                   Complete(@, outcome, discover_tools_body(Await(i, outcome)))]
    /\ UNCHANGED TOOL_WAREHOUSE_URL

\* GET /registry: runs discover_tools, which makes the upstream call
get_registry_call(i) ==
    /\ reqs[i].pc = "idle"
    /\ reqs' = [reqs EXCEPT ![i] =
                   IssueCall(@, "/registry", "", "GET", <<"/tools">>, 10)]
    /\ UNCHANGED TOOL_WAREHOUSE_URL

get_registry_resume(i, outcome) ==
    /\ reqs[i].pc = "awaiting"
    /\ reqs[i].endpoint = "/registry"
    /\ reqs' = [reqs EXCEPT ![i] =
                   Complete(@, outcome, get_registry_body(Await(i, outcome)))]
    /\ UNCHANGED TOOL_WAREHOUSE_URL

\* POST /execute/{tool_name}
execute_tool_call(i, tool_name) ==
    /\ reqs[i].pc = "idle"
    /\ reqs' = [reqs EXCEPT ![i] =
                   IssueCall(@, "/execute/{tool_name}", tool_name, "POST",
                             <<"/execute/", tool_name>>, 30)]
    /\ UNCHANGED TOOL_WAREHOUSE_URL

execute_tool_resume(i, outcome) ==
    /\ reqs[i].pc = "awaiting"
    /\ reqs[i].endpoint = "/execute/{tool_name}"
    /\ reqs' = [reqs EXCEPT ![i] =
                   Complete(@, outcome,
                            execute_tool_body(reqs[i].tool_name, Await(i, outcome)))]
    /\ UNCHANGED TOOL_WAREHOUSE_URL

\* GET /tools/{tool_name}/code
get_tool_code_call(i, tool_name) ==
    /\ reqs[i].pc = "idle"
    /\ reqs' = [reqs EXCEPT ![i] =
                   IssueCall(@, "/tools/{tool_name}/code", tool_name, "GET",
                             <<"/tools/", tool_name, "/code">>, 10)]
    /\ UNCHANGED TOOL_WAREHOUSE_URL

get_tool_code_resume(i, outcome) ==
    /\ reqs[i].pc = "awaiting"
    /\ reqs[i].endpoint = "/tools/{tool_name}/code"
    /\ reqs' = [reqs EXCEPT ![i] =
                   Complete(@, outcome,
                            get_tool_code_body(reqs[i].tool_name, Await(i, outcome)))]
    /\ UNCHANGED TOOL_WAREHOUSE_URL

Next ==
    \/ \E i \in ReqIds : root(i)
    \/ \E i \in ReqIds : health_check_call(i)
    \/ \E i \in ReqIds, outcome \in Outcomes("/health") : health_check_resume(i, outcome)
    \/ \E i \in ReqIds : discover_tools_call(i)
    \/ \E i \in ReqIds, outcome \in Outcomes("/tools") : discover_tools_resume(i, outcome)
    \/ \E i \in ReqIds : get_registry_call(i)
    \/ \E i \in ReqIds, outcome \in Outcomes("/registry") : get_registry_resume(i, outcome)
    \/ \E i \in ReqIds, tool_name \in ToolNames : execute_tool_call(i, tool_name)
    \/ \E i \in ReqIds, outcome \in Outcomes("/execute/{tool_name}") : execute_tool_resume(i, outcome)
    \/ \E i \in ReqIds, tool_name \in ToolNames : get_tool_code_call(i, tool_name)
    \/ \E i \in ReqIds, outcome \in Outcomes("/tools/{tool_name}/code") : get_tool_code_resume(i, outcome)

Spec == Init /\ [][Next]_vars

------------------------------------------------------------------------------
\* Shorthands over completed requests.

Done(i) == reqs[i].pc = "done"

DoneAt(i, endpoint) == Done(i) /\ reqs[i].endpoint = endpoint

IsNon200(o) == o.kind = "response" /\ o.status_code # 200

TypeOK ==
    /\ TOOL_WAREHOUSE_URL \in EnvUrls
    /\ \A i \in ReqIds : reqs[i].pc \in {"idle", "awaiting", "done"}

------------------------------------------------------------------------------
\* Vocabulary of the claims, stated on the upstream outcome alone.

IsTimeout(o) == o.kind = "exception" /\ IsInstance(o.exc, "TimeoutException")

IsConnectionFailure(o) ==
    /\ o.kind = "exception"
    /\ IsInstance(o.exc, "RequestError")
    /\ ~IsInstance(o.exc, "TimeoutException")

IsOtherFailure(o) == o.kind = "exception" /\ ~IsInstance(o.exc, "RequestError")

IsJson(text) == JsonLoads(text).kind = "return"

IsJsonObject(text) == IsJson(text) /\ JsonLoads(text).value.type = "object"

HasDetail(text) ==
    IsJsonObject(text) /\ "detail" \in DOMAIN JsonLoads(text).value.obj

\* The Tool Warehouse contract for an execution result:
\* {success, tool_name, result?, error?}.
WellFormedResult(text) ==
    /\ IsJsonObject(text)
    /\ {"success", "tool_name"} \subseteq DOMAIN JsonLoads(text).value.obj
    /\ JsonLoads(text).value.obj.success.type = "bool"
    /\ JsonLoads(text).value.obj.tool_name.type = "string"

PassedThrough(o) ==
    o.kind = "response" /\ o.status_code = 200 /\ WellFormedResult(o.text)

ToolsEndpoints == {"/tools", "/registry"}

ExecuteEndpoint == "/execute/{tool_name}"

CodeEndpoint == "/tools/{tool_name}/code"

IsErrorWithDetail(resp) ==
    /\ resp.body.type = "object"
    /\ "detail" \in DOMAIN resp.body.obj

------------------------------------------------------------------------------
\* C1: whenever the upstream answers GET /tools with a status s other than
\* 200, the response of GET /tools (and GET /registry) is an HTTP error with
\* status s whose message embeds the upstream body text.
C1_ToolsRelaysUpstreamStatus ==
    \A i \in ReqIds :
        (Done(i) /\ reqs[i].endpoint \in ToolsEndpoints /\ IsNon200(reqs[i].outcome))
        => /\ reqs[i].response.status = reqs[i].outcome.status_code
           /\ IsErrorWithDetail(reqs[i].response)
           /\ Contains(reqs[i].response.body.obj.detail.s, reqs[i].outcome.text)

\* C2: POST /execute/{tool_name} answers HTTP 200 with a ToolExecutionResponse
\* for every upstream outcome; success is false for every failure class
\* (non-200, timeout, connection failure, unexpected failure, malformed body)
\* and true only for an upstream 200 with a well-formed execution result.
C2_ExecuteAlways200 ==
    \A i \in ReqIds :
        DoneAt(i, ExecuteEndpoint)
        => /\ reqs[i].response.status = 200
           /\ reqs[i].response.body.type = "ToolExecutionResponse"
           /\ ~PassedThrough(reqs[i].outcome) => reqs[i].response.body.success = FALSE
           /\ reqs[i].response.body.success = TRUE => PassedThrough(reqs[i].outcome)

C2_Witness ==
    \E i, j \in ReqIds :
        /\ DoneAt(i, ExecuteEndpoint) /\ DoneAt(j, ExecuteEndpoint)
        /\ IsTimeout(reqs[i].outcome)
        /\ reqs[i].response.status = 200
        /\ reqs[i].response.body.success = FALSE
        /\ PassedThrough(reqs[j].outcome)
        /\ reqs[j].response.body.success = TRUE

\* C3: GET /health always answers HTTP 200; status is "healthy" exactly when
\* the upstream answered 200 and "degraded" otherwise; tool_warehouse.status
\* is "connected" exactly when healthy and "unreachable" exactly when degraded.
C3_HealthNeverFails ==
    \A i \in ReqIds :
        DoneAt(i, "/health")
        => LET o == reqs[i].outcome
               up200 == o.kind = "response" /\ o.status_code = 200
               b == reqs[i].response.body.obj
           IN  /\ reqs[i].response.status = 200
               /\ b.status.s = <<"healthy">> <=> up200
               /\ b.status.s = <<"degraded">> <=> ~up200
               /\ b.tool_warehouse.obj.status.s = <<"connected">>
                      <=> b.status.s = <<"healthy">>
               /\ b.tool_warehouse.obj.status.s = <<"unreachable">>
                      <=> b.status.s = <<"degraded">>

C3_Witness ==
    \E i, j \in ReqIds :
        /\ DoneAt(i, "/health") /\ DoneAt(j, "/health")
        /\ IsTimeout(reqs[i].outcome)
        /\ reqs[i].response.body.obj.status.s = <<"degraded">>
        /\ reqs[j].outcome.kind = "response" /\ reqs[j].outcome.status_code = 200
        /\ reqs[j].response.body.obj.status.s = <<"healthy">>

\* C4: whenever the upstream answers GET /tools/{tool_name}/code with a status
\* s other than 200, the response has status s and the upstream body text as
\* its detail; 500 is not produced for an upstream non-200 answer (other than
\* an upstream 500 itself).
C4_CodeRelaysUpstreamStatus ==
    \A i \in ReqIds :
        (DoneAt(i, CodeEndpoint) /\ IsNon200(reqs[i].outcome))
        => /\ reqs[i].response.status = reqs[i].outcome.status_code
           /\ IsErrorWithDetail(reqs[i].response)
           /\ reqs[i].response.body.obj.detail.s = <<reqs[i].outcome.text>>

\* C5: for GET /tools and GET /registry an upstream timeout yields 504, a
\* connection failure that is not a timeout yields 503, any other unexpected
\* failure yields 500; a timeout is never reported as 503.
C5_ToolsFailureClassStatus ==
    \A i \in ReqIds :
        (Done(i) /\ reqs[i].endpoint \in ToolsEndpoints)
        => LET o == reqs[i].outcome
               st == reqs[i].response.status
           IN  /\ IsTimeout(o) => st = 504
               /\ IsConnectionFailure(o) => st = 503
               /\ IsOtherFailure(o) => st = 500
               /\ (o.kind = "response" /\ o.status_code = 200 /\ ~IsJson(o.text))
                      => st = 500

C5_Witness ==
    \E i, j \in ReqIds :
        /\ Done(i) /\ reqs[i].endpoint = "/tools"
        /\ IsTimeout(reqs[i].outcome) /\ reqs[i].response.status = 504
        /\ Done(j) /\ reqs[j].endpoint \in ToolsEndpoints
        /\ IsConnectionFailure(reqs[j].outcome) /\ reqs[j].response.status = 503

\* C6: no retries: a request to /health, /tools, /registry,
\* /execute/{tool_name} or /tools/{tool_name}/code has made exactly one
\* upstream call from the moment it suspends until its response, whatever the
\* outcome; GET / makes none and answers 200.
C6_ExactlyOneCall ==
    \A i \in ReqIds :
        /\ reqs[i].pc = "idle" => reqs[i].calls = 0
        /\ reqs[i].pc = "awaiting" => reqs[i].calls = 1
        /\ (Done(i) /\ reqs[i].endpoint # "/") => reqs[i].calls = 1
        /\ DoneAt(i, "/") => (reqs[i].calls = 0 /\ reqs[i].response.status = 200)

C6_Witness ==
    \E i, j \in ReqIds :
        /\ DoneAt(i, "/") /\ reqs[i].calls = 0
        /\ Done(j) /\ reqs[j].endpoint = "/registry"
        /\ IsTimeout(reqs[j].outcome) /\ reqs[j].calls = 1

\* C7: when the upstream answers GET /tools with 200 and a JSON body B,
\* GET /tools answers 200 with B, and GET /registry with the same upstream
\* outcome answers with the same status and body as GET /tools.
C7_ToolsRelaysBody ==
    /\ \A i \in ReqIds :
          (Done(i) /\ reqs[i].endpoint \in ToolsEndpoints
           /\ reqs[i].outcome.kind = "response"
           /\ reqs[i].outcome.status_code = 200
           /\ IsJson(reqs[i].outcome.text))
          => /\ reqs[i].response.status = 200
             /\ reqs[i].response.body = JsonLoads(reqs[i].outcome.text).value
    /\ \A i, j \in ReqIds :
          (DoneAt(i, "/tools") /\ DoneAt(j, "/registry")
           /\ reqs[i].outcome = reqs[j].outcome)
          => reqs[i].response = reqs[j].response

C7_Witness ==
    \E i, j \in ReqIds :
        /\ DoneAt(i, "/tools") /\ DoneAt(j, "/registry")
        /\ reqs[i].outcome = [kind |-> "response", status_code |-> 200,
                              text |-> TextRegistry]
        /\ reqs[j].outcome = reqs[i].outcome
        /\ reqs[i].response.status = 200
        /\ reqs[i].response.body.obj.tools.items = <<JStr(<<"a">>), JStr(<<"b">>)>>

\* C8: every ToolExecutionResponse of POST /execute/{tool_name} has exactly
\* one of result and error populated, chosen by success, for responses built
\* on failure and for responses passed through from an upstream 200 body.
C8_ExactlyOneOfResultError ==
    \A i \in ReqIds :
        (DoneAt(i, ExecuteEndpoint)
         /\ reqs[i].response.body.type = "ToolExecutionResponse")
        => LET b == reqs[i].response.body
           IN  /\ b.success => (b.result # JNull /\ b.error = JNull)
               /\ ~b.success => (b.error # JNull /\ b.result = JNull)

\* C8 as amended: every ToolExecutionResponse the Gateway builds itself
\* (upstream non-200, timeout, connection failure, unexpected failure,
\* malformed 200 body) has success false, error populated and result absent;
\* a response passed through from a well-formed upstream 200 body carries the
\* upstream's success, result and error as sent, an absent field as None.
C8_BuiltFailuresCarryOnlyError ==
    \A i \in ReqIds :
        DoneAt(i, ExecuteEndpoint)
        => LET o == reqs[i].outcome
               b == reqs[i].response.body
           IN  /\ b.type = "ToolExecutionResponse"
               /\ ~PassedThrough(o)
                      => (b.success = FALSE /\ b.error # JNull /\ b.result = JNull)
               /\ PassedThrough(o)
                      => LET d == JsonLoads(o.text).value.obj
                         IN  /\ b.success = d.success.b
                             /\ b.result = IF "result" \in DOMAIN d
                                           THEN d.result ELSE JNull
                             /\ b.error = IF "error" \in DOMAIN d
                                          THEN d.error ELSE JNull

C8_Witness ==
    \E i, j \in ReqIds :
        /\ DoneAt(i, ExecuteEndpoint) /\ DoneAt(j, ExecuteEndpoint)
        /\ IsConnectionFailure(reqs[i].outcome)
        /\ reqs[i].response.body.error # JNull
        /\ reqs[i].response.body.result = JNull
        /\ reqs[j].outcome = [kind |-> "response", status_code |-> 200,
                              text |-> TextExecNoResult]
        /\ reqs[j].response.body.success = TRUE
        /\ reqs[j].response.body.result = JNull
        /\ reqs[j].response.body.error = JNull

\* C9: concurrent requests are independent: under every interleaving, two
\* requests with the same endpoint, path parameter and outcome of their own
\* upstream call get the same response, whatever happened to the other
\* requests in flight; and TOOL_WAREHOUSE_URL never changes after startup.
SameResponseForSameRequest ==
    \A i, j \in ReqIds :
        (Done(i) /\ Done(j)
         /\ reqs[i].endpoint = reqs[j].endpoint
         /\ reqs[i].tool_name = reqs[j].tool_name
         /\ reqs[i].outcome = reqs[j].outcome)
        => reqs[i].response = reqs[j].response

C10_ExecuteErrorCarriesDetailOrText ==
    \A i \in ReqIds :
        (DoneAt(i, ExecuteEndpoint) /\ IsNon200(reqs[i].outcome))
        => LET o == reqs[i].outcome
               b == reqs[i].response.body
               expected == IF HasDetail(o.text)
                           THEN PyStr(JsonLoads(o.text).value.obj.detail)
                           ELSE <<o.text>>
           IN  /\ b.type = "ToolExecutionResponse"
               /\ b.success = FALSE
               /\ b.tool_name = <<reqs[i].tool_name>>
               /\ b.error.type = "string"
               /\ \A k \in 1..Len(expected) : Contains(b.error.s, expected[k])

====
